---- MODULE Spec2Model ----
(***************************************************************************)
(* Oh-Bok-Wan trading journal (src/app.py).                                *)
(*                                                                         *)
(* State: the journal file oh_bok_wan_data.csv, the st.cache_data entries  *)
(* of get_market_context, the clock, and the position of every browser     *)
(* session inside the form's submit handler.                               *)
(*                                                                         *)
(* Units: a price is an integer number of hundredths; a percentage or a    *)
(* ratio is an exact fraction until round(x, 2) turns it into an integer   *)
(* number of hundredths.  A date is a day number, a time of day a number   *)
(* of seconds after midnight.  A text that int() parses is a sequence of   *)
(* one-character strings.                                                  *)
(***************************************************************************)
EXTENDS Integers, Sequences, FiniteSets, TLC

VARIABLES
    file,      \* the content of FILE_PATH
    cache,     \* st.cache_data of get_market_context: date -> entry
    now,       \* the clock the cache reads, in seconds
    ticks,     \* how many times the clock has advanced
    tz,        \* utc offset of the host's local time zone, in seconds
    pc,        \* session -> "idle" | "save" | "write"
    local,     \* session -> the handler's locals: trade_data and save_data's df
    msg,       \* session -> "none" | "success" | "error"
    lastCall,  \* history: the latest call of get_market_context
    appended,  \* history: the trade_data of every finished save_data, in order
    submitted, \* history: the latest click on the form and its pnl_rate
    raced      \* history: a save_data rewrote the file under another's loaded df

vars ==
    <<file, cache, now, ticks, tz, pc, local, msg, lastCall, appended,
      submitted, raced>>

-----------------------------------------------------------------------------
(* Bounds *)

MaxSubmits == 2

MaxTicks == 3

(* @st.cache_data(ttl=3600) *)
TTL == 3600

Sessions == {1, 2}
Dates == {1, 2}

-----------------------------------------------------------------------------
(* Texts that int() and float() read *)

Digits == <<"0", "1", "2", "3", "4", "5", "6", "7", "8", "9">>

DigitChar(i) == Digits[i + 1]

IsDigit(c) == c \in {"0", "1", "2", "3", "4", "5", "6", "7", "8", "9"}

DigitVal(c) ==
    CASE c = "0" -> 0 [] c = "1" -> 1 [] c = "2" -> 2 [] c = "3" -> 3
      [] c = "4" -> 4 [] c = "5" -> 5 [] c = "6" -> 6 [] c = "7" -> 7
      [] c = "8" -> 8 [] c = "9" -> 9

(* int(text) raises ValueError unless IsInt(text) *)
IsInt(cs) == Len(cs) > 0 /\ \A i \in 1..Len(cs) : IsDigit(cs[i])

RECURSIVE IntOf(_)
IntOf(cs) ==
    IF Len(cs) = 0 THEN 0
    ELSE 10 * IntOf(SubSeq(cs, 1, Len(cs) - 1)) + DigitVal(cs[Len(cs)])

RECURSIVE FormatInt(_)
FormatInt(n) ==
    IF n < 10 THEN <<DigitChar(n)>>
    ELSE FormatInt(n \div 10) \o <<DigitChar(n % 10)>>

Abs(x) == IF x < 0 THEN -x ELSE x

(* repr of a float that holds h hundredths: "20.0", "-9.09", "0.5" *)
FormatFloat(h) ==
    LET a == Abs(h)
        d1 == (a % 100) \div 10
        d2 == a % 10
    IN  (IF h < 0 THEN <<"-">> ELSE <<>>)
        \o FormatInt(a \div 100) \o <<".">> \o <<DigitChar(d1)>>
        \o (IF d2 = 0 THEN <<>> ELSE <<DigitChar(d2)>>)

(* the float a csv cell holds, in hundredths *)
ParseFloat(cs) ==
    LET neg  == cs[1] = "-"
        body == IF neg THEN SubSeq(cs, 2, Len(cs)) ELSE cs
        dot  == CHOOSE i \in 1..Len(body) : body[i] = "."
        ip   == IntOf(SubSeq(body, 1, dot - 1))
        fr   == SubSeq(body, dot + 1, Len(body))
        fp   == IF Len(fr) = 1 THEN 10 * IntOf(fr) ELSE IntOf(fr)
        a    == 100 * ip + fp
    IN  IF neg THEN -a ELSE a

-----------------------------------------------------------------------------
(* The form's arithmetic *)

PricesValidEntryOnly(entry_price, exit_price) == entry_price > 0

(* if entry_price > 0 and exit_price > 0 *)
PricesValid(entry_price, exit_price) == entry_price > 0 /\ exit_price > 0

PnlRateExitBase(position, entry_price, exit_price, leverage) ==
    IF position = "Long"
    THEN [num |-> (exit_price - entry_price) * leverage * 100, den |-> entry_price]
    ELSE [num |-> (entry_price - exit_price) * leverage * 100, den |-> exit_price]

(* pnl_rate, the fraction num / den, in percent *)
PnlRate(position, entry_price, exit_price, leverage) ==
    IF position = "Long"
    THEN [num |-> (exit_price - entry_price) * leverage * 100, den |-> entry_price]
    ELSE [num |-> (entry_price - exit_price) * leverage * 100, den |-> entry_price]

(* pnl_status = "Win" if pnl_rate > 0 else "Lose" *)
PnlStatus(rate) == IF rate.num > 0 THEN "Win" ELSE "Lose"

(* risk, reward and rr_ratio, as the fraction num / den; 0 is 0 / 1 *)
RrRatio(entry_price, stop_loss, take_profit) ==
    LET risk   == IF stop_loss > 0 THEN Abs(entry_price - stop_loss) ELSE 0
        reward == IF take_profit > 0 THEN Abs(take_profit - entry_price) ELSE 0
    IN  IF risk > 0 THEN [num |-> reward, den |-> risk] ELSE [num |-> 0, den |-> 1]

(* round(x, 2) of the fraction x, in hundredths.  Python rounds the binary    *)
(* float, which lies just above or just below a decimal tie, so a tie can go  *)
(* either way.                                                                *)
Round2(x) ==
    LET n == x.num * 100
        q == n \div x.den
        r == n % x.den
    IN  IF 2 * r < x.den THEN {q}
        ELSE IF 2 * r > x.den THEN {q + 1}
        ELSE {q, q + 1}

-----------------------------------------------------------------------------
(* get_market_context *)

DefaultTuple == [value |-> 0, text |-> "-", trend |-> "no data"]

(* datetime.fromtimestamp(seconds).date(), in the host's local time zone *)
ItemDate(seconds, offset) == (seconds + offset) \div 86400

(* The loop over fng_data from item i on.  "raise": int() raised;           *)
(* "found": item i matched; "none": the loop ran off the end.                *)
RECURSIVE ScanFng(_, _, _, _)
ScanFng(fng_data, i, target_date, offset) ==
    IF i > Len(fng_data) THEN [value |-> 0, text |-> "-", kind |-> "none"]
    ELSE IF ~IsInt(fng_data[i].timestamp) THEN [value |-> 0, text |-> "-", kind |-> "raise"]
    ELSE IF ItemDate(IntOf(fng_data[i].timestamp), offset) = target_date
         THEN IF IsInt(fng_data[i].value)
              THEN [value |-> IntOf(fng_data[i].value), text |-> fng_data[i].value_classification,
                    kind |-> "found"]
              ELSE [value |-> 0, text |-> "-", kind |-> "raise"]
    ELSE ScanFng(fng_data, i + 1, target_date, offset)

FearGreedNearest(fng, target_date, offset) ==
    IF fng.status # "ok" THEN [value |-> 0, text |-> "-", kind |-> "raise"]
    ELSE LET hit == ScanFng(fng.data, 1, target_date, offset)
             last == Len(fng.data)
         IN  IF hit.kind # "none" THEN hit
             ELSE IF fng.data = <<>> \/ ~IsInt(fng.data[last].value)
                  THEN [value |-> 0, text |-> "-", kind |-> "raise"]
             ELSE [value |-> IntOf(fng.data[last].value), text |-> fng.data[last].value_classification,
                   kind |-> "found"]

(* lines 18-33: the fear and greed value and label, or "raise" *)
FearGreed(fng, target_date, offset) ==
    IF fng.status # "ok" THEN [value |-> 0, text |-> "-", kind |-> "raise"]
    ELSE LET hit == ScanFng(fng.data, 1, target_date, offset)
         IN  IF hit.kind # "none" THEN hit
             ELSE IF fng.data = <<>> \/ ~IsInt(fng.data[1].value)
                  THEN [value |-> 0, text |-> "-", kind |-> "raise"]
             ELSE [value |-> IntOf(fng.data[1].value), text |-> fng.data[1].value_classification,
                   kind |-> "found"]

(* lines 36-45: the candle's trend, or "raise" when the download or the     *)
(* comparison of close and open raises                                      *)
BtcTrend(price) ==
    IF price.kind \in {"error", "ambiguous"} THEN "raise"
    ELSE IF price.kind = "empty" THEN "-"
    ELSE IF price.close > price.open THEN "bullish candle"
    ELSE "bearish candle"

ComputeKeepPartial(target_date, fng, price, offset) ==
    LET fg == FearGreed(fng, target_date, offset)
    IN  IF fg.kind = "raise"
        THEN [result |-> DefaultTuple, raised |-> TRUE, fngCalls |-> 1, priceCalls |-> 0]
        ELSE IF BtcTrend(price) = "raise"
        THEN [result |-> [value |-> fg.value, text |-> fg.text, trend |-> "no data"],
              raised |-> TRUE, fngCalls |-> 1, priceCalls |-> 1]
        ELSE [result |-> [value |-> fg.value, text |-> fg.text, trend |-> BtcTrend(price)],
              raised |-> FALSE, fngCalls |-> 1, priceCalls |-> 1]

(* The body of get_market_context, lines 16-50: one requests.get, then one  *)
(* yf.download unless the first part raised, and the except clause.         *)
Compute(target_date, fng, price, offset) ==
    LET fg == FearGreed(fng, target_date, offset)
    IN  IF fg.kind = "raise"
        THEN [result |-> DefaultTuple, raised |-> TRUE, fngCalls |-> 1, priceCalls |-> 0]
        ELSE IF BtcTrend(price) = "raise"
        THEN [result |-> DefaultTuple, raised |-> TRUE, fngCalls |-> 1, priceCalls |-> 1]
        ELSE [result |-> [value |-> fg.value, text |-> fg.text, trend |-> BtcTrend(price)],
              raised |-> FALSE, fngCalls |-> 1, priceCalls |-> 1]

NoEntry == [value |-> DefaultTuple, present |-> FALSE, created |-> 0]

FreshForever(c, t, d) == IF c[d].present THEN {TRUE} ELSE {FALSE}

(* Whether the entry of date d serves a call at time t.  At an age of       *)
(* exactly ttl the cache library's versions differ, so both can happen.     *)
Fresh(c, t, d) ==
    IF ~c[d].present THEN {FALSE}
    ELSE IF t - c[d].created < TTL THEN {TRUE}
    ELSE IF t - c[d].created > TTL THEN {FALSE}
    ELSE {TRUE, FALSE}

StoreUnlessRaised(c, t, d, r) ==
    IF r.raised THEN c
    ELSE [c EXCEPT ![d] = [value |-> r.result, present |-> TRUE, created |-> t]]

(* The cache keeps whatever the function returned, keyed by its argument *)
Store(c, t, d, r) ==
    [c EXCEPT ![d] = [value |-> r.result, present |-> TRUE, created |-> t]]

(* get_market_context(target_date) behind @st.cache_data(ttl=3600):        *)
(* the value returned, the cache afterwards, and what the call did.         *)
get_market_context(c, t, target_date, fng, price, offset, hit) ==
    IF hit
    THEN [cache |-> c, hit |-> TRUE, result |-> c[target_date].value,
          raised |-> FALSE, fngCalls |-> 0, priceCalls |-> 0]
    ELSE LET r == Compute(target_date, fng, price, offset)
         IN  [cache |-> Store(c, t, target_date, r), hit |-> FALSE,
              result |-> r.result, raised |-> r.raised,
              fngCalls |-> r.fngCalls, priceCalls |-> r.priceCalls]

-----------------------------------------------------------------------------
(* The journal file: DataFrame.to_csv, pd.read_csv, load_data, save_data.   *)
(* A DataFrame is the sequence of its rows, a row a record with the keys of *)
(* trade_data; a csv file is the sequence of its lines, a line a record of  *)
(* cell texts.                                                              *)

(* The float nan that read_csv puts in a cell it takes as missing; no text  *)
(* typed in the form is this value.                                          *)
NaN == "<float nan>"

(* read_csv's default na_values *)
NaValues ==
    {"", "#N/A", "#N/A N/A", "#NA", "-1.#IND", "-1.#QNAN", "-NaN", "-nan",
     "1.#IND", "1.#QNAN", "<NA>", "N/A", "NA", "NULL", "NaN", "None", "n/a",
     "nan", "null"}

(* to_csv writes a missing cell as the empty text (na_rep) *)
TextCell(v) == IF v = NaN THEN "" ELSE v

ReadText(cell) == IF cell \in NaValues THEN NaN ELSE cell

(* to_csv of a datetime column: dates alone when every time is midnight *)
DateCell(ts, datesOnly) == IF datesOnly THEN <<ts[1]>> ELSE ts

(* pd.to_datetime of a cell *)
ReadDate(cell) == IF Len(cell) = 1 THEN <<cell[1], 0>> ELSE cell

AbsentFile == [kind |-> "absent", rows |-> <<>>]

UnparseableFile == [kind |-> "unparseable", rows |-> <<>>]

(* final_df.to_csv(..., index=False), as a file: the header and one line a row *)
to_csv(df) ==
    LET datesOnly == \A i \in 1..Len(df) : df[i].ts[2] = 0
    IN  [kind |-> "csv",
         rows |-> [i \in 1..Len(df) |->
            [position |-> TextCell(df[i].position),
             leverage |-> FormatInt(df[i].leverage),
             trend    |-> TextCell(df[i].trend),
             fng      |-> FormatInt(df[i].fng),
             result   |-> TextCell(df[i].result),
             ts       |-> DateCell(df[i].ts, datesOnly),
             ticker   |-> TextCell(df[i].ticker),
             pnl      |-> FormatFloat(df[i].pnl),
             rr       |-> FormatFloat(df[i].rr),
             mood     |-> TextCell(df[i].mood)]]]

(* pd.read_csv and the to_datetime of lines 56-58 *)
read_csv(rows) ==
    [i \in 1..Len(rows) |->
        [position |-> ReadText(rows[i].position),
         leverage |-> IntOf(rows[i].leverage),
         trend    |-> ReadText(rows[i].trend),
         fng      |-> IntOf(rows[i].fng),
         result   |-> ReadText(rows[i].result),
         ts       |-> ReadDate(rows[i].ts),
         ticker   |-> ReadText(rows[i].ticker),
         pnl      |-> ParseFloat(rows[i].pnl),
         rr       |-> ParseFloat(rows[i].rr),
         mood     |-> ReadText(rows[i].mood)]]

(* load_data: the empty DataFrame when the file is missing or read_csv raises *)
load_data(f) == IF f.kind = "csv" THEN read_csv(f.rows) ELSE <<>>

(* lines 66-70 *)
final_df(df, data) == IF df = <<>> THEN <<data>> ELSE df \o <<data>>

WriteFileAppendMode(old, df) ==
    IF old.kind = "csv"
    THEN [kind |-> "csv", rows |-> old.rows \o to_csv(df).rows]
    ELSE IF old.kind = "absent" THEN to_csv(df) ELSE old

(* line 71: to_csv replaces the file *)
WriteFile(old, df) == to_csv(df)

save_data(f, data) == WriteFile(f, final_df(load_data(f), data))

-----------------------------------------------------------------------------
(* The form and its submit handler *)

(* trade_data, lines 117-128.  Its keys, in the source's order: ts (entry   *)
(* date and time), ticker, position, leverage, pnl (percent, rounded),      *)
(* result, rr (risk/reward, rounded), fng (fear index), mood (its label),   *)
(* trend (btc candle).  Columns are found by name, so the order in which a  *)
(* record lists them carries no meaning.                                    *)
trade_data(in, status, pnl2, rr2, ctx) ==
    [position |-> in.position,
     leverage |-> in.leverage,
     trend    |-> ctx.trend,
     fng      |-> ctx.value,
     result   |-> status,
     ts       |-> <<in.date, in.time>>,
     ticker   |-> in.ticker,
     pnl      |-> pnl2,
     rr       |-> rr2,
     mood     |-> ctx.text]

NoData ==
    [position |-> "", leverage |-> 0, trend |-> "", fng |-> 0, result |-> "",
     ts |-> <<0, 0>>, ticker |-> "", pnl |-> 0, rr |-> 0, mood |-> ""]

NoLocal == [data |-> NoData, df |-> <<>>]

NoFng == [status |-> "none", data |-> <<>>]

NoPrice == [kind |-> "none", close |-> 0, open |-> 0]

NoCall ==
    [n |-> 0, fng |-> NoFng, hit |-> FALSE, price |-> NoPrice, result |-> DefaultTuple,
     raised |-> FALSE, fngCalls |-> 0, priceCalls |-> 0,
     date |-> 0, at |-> 0]

NoRate == [num |-> 0, den |-> 1]

NoInput ==
    [entry_price |-> 0, exit_price |-> 0, position |-> "", leverage |-> 0, stop_loss |-> 0,
     take_profit |-> 0, ticker |-> "", date |-> 0, time |-> 0]

NoSubmit == [rate |-> NoRate, last |-> "none", in |-> NoInput, nValid |-> 0]

(* History: whether a click carried two positive prices *)
BothPositive(in) == in.entry_price > 0 /\ in.exit_price > 0

Clicked(in, rate) ==
    [rate  |-> rate,
     last  |-> IF BothPositive(in) THEN "valid" ELSE "invalid",
     in    |-> in,
     nValid |-> submitted.nValid + (IF BothPositive(in) THEN 1 ELSE 0)]

(* submissions that got past the price check *)
Begun == Len(appended) + Cardinality({s \in Sessions : pc[s] # "idle"})

(* Lines 99-141 up to save_data: the price check, the arithmetic and the    *)
(* market context.  whole: save_data runs in the same step.                 *)
Handle(s, in, fng, price, whole) ==
    /\ pc[s] = "idle"
    /\ IF PricesValid(in.entry_price, in.exit_price)
       THEN /\ Begun < MaxSubmits
            /\ \E hit \in Fresh(cache, now, in.date) :
               \E pnl2 \in Round2(PnlRate(in.position, in.entry_price,
                                          in.exit_price, in.leverage)) :
               \E rr2 \in Round2(RrRatio(in.entry_price, in.stop_loss,
                                         in.take_profit)) :
                  LET rate == PnlRate(in.position, in.entry_price,
                                      in.exit_price, in.leverage)
                      call == get_market_context(cache, now, in.date, fng,
                                                 price, tz, hit)
                      data == trade_data(in, PnlStatus(rate), pnl2, rr2,
                                         call.result)
                  IN  /\ submitted' = Clicked(in, rate)
                      /\ cache' = call.cache
                      /\ lastCall' =
                            [n |-> lastCall.n + 1, fng |-> fng, hit |-> call.hit,
                             price |-> price, result |-> call.result,
                             raised |-> call.raised, fngCalls |-> call.fngCalls,
                             priceCalls |-> call.priceCalls,
                             date |-> in.date,
                             at |-> now]
                      /\ IF whole
                         THEN /\ file' = save_data(file, data)
                              /\ appended' = Append(appended, data)
                              /\ msg' = [msg EXCEPT ![s] = "success"]
                              /\ UNCHANGED <<pc, local>>
                         ELSE /\ pc' = [pc EXCEPT ![s] = "save"]
                              /\ local' = [local EXCEPT ![s] =
                                              [data |-> data, df |-> <<>>]]
                              /\ UNCHANGED <<file, appended, msg>>
       ELSE /\ submitted' = Clicked(in, NoRate)
            /\ msg' = [msg EXCEPT ![s] = "error"]
            /\ UNCHANGED <<file, cache, lastCall, appended, pc, local>>
    /\ UNCHANGED <<now, ticks, tz, raced>>

(* One submission handled from the click to the end of save_data, no other  *)
(* session being inside the handler.                                        *)
Submit(s, in, fng, price) ==
    /\ \A t \in Sessions : pc[t] = "idle"
    /\ Handle(s, in, fng, price, TRUE)

(* A submission up to the call of save_data *)
SubmitBegin(s, in, fng, price) == Handle(s, in, fng, price, FALSE)

(* save_data, line 65: df = load_data() *)
SaveLoad(s) ==
    /\ pc[s] = "save"
    /\ local' = [local EXCEPT ![s].df = load_data(file)]
    /\ pc' = [pc EXCEPT ![s] = "write"]
    /\ UNCHANGED <<file, cache, now, ticks, tz, msg, lastCall, appended,
                   submitted, raced>>

(* save_data, lines 66-71, and st.success *)
SaveWrite(s) ==
    /\ pc[s] = "write"
    /\ file' = WriteFile(file, final_df(local[s].df, local[s].data))
    /\ appended' = Append(appended, local[s].data)
    /\ raced' = (raced \/ \E t \in Sessions \ {s} : pc[t] = "write")
    /\ msg' = [msg EXCEPT ![s] = "success"]
    /\ pc' = [pc EXCEPT ![s] = "idle"]
    /\ local' = [local EXCEPT ![s] = NoLocal]
    /\ UNCHANGED <<cache, now, ticks, tz, lastCall, submitted>>

(* Time passes *)
Tick(delta) ==
    /\ ticks < MaxTicks
    /\ now' = now + delta
    /\ ticks' = ticks + 1
    /\ UNCHANGED <<file, cache, tz, pc, local, msg, lastCall, appended,
                   submitted, raced>>

Init ==
    /\ file \in {AbsentFile, UnparseableFile}
    /\ cache = [d \in Dates |-> NoEntry]
    /\ now = 0
    /\ ticks = 0
    /\ tz \in {0, 32400}
    /\ pc = [s \in Sessions |-> "idle"]
    /\ local = [s \in Sessions |-> NoLocal]
    /\ msg = [s \in Sessions |-> "none"]
    /\ lastCall = NoCall
    /\ appended = <<>>
    /\ submitted = NoSubmit
    /\ raced = FALSE

-----------------------------------------------------------------------------
(* What the two feeds can answer *)

Day1Midnight ==
    [value |-> <<"2", "5">>, timestamp |-> <<"8", "6", "4", "0", "0">>,
     value_classification |-> "Extreme Fear"]

Day1LastSecond ==
    [value |-> <<"4", "0">>, timestamp |-> <<"1", "7", "2", "7", "9", "9">>,
     value_classification |-> "Fear"]

Day2Midnight ==
    [value |-> <<"7", "5">>, timestamp |-> <<"1", "7", "2", "8", "0", "0">>,
     value_classification |-> "Greed"]

BadValue ==
    [value |-> <<"n", "/", "a">>, timestamp |-> <<"8", "6", "4", "0", "0">>,
     value_classification |-> "Fear"]

BadTimestamp ==
    [value |-> <<"5", "0">>, timestamp |-> <<"-">>,
     value_classification |-> "Neutral"]

FngError == [status |-> "error", data |-> <<>>]

FngOk(items) == [status |-> "ok", data |-> items]

FngResponses ==
    {FngError,
     FngOk(<<>>),
     FngOk(<<Day2Midnight, Day1Midnight, Day1LastSecond>>),
     FngOk(<<Day1Midnight, Day1LastSecond>>),
     FngOk(<<Day2Midnight, BadTimestamp>>),
     FngOk(<<BadValue, Day2Midnight>>)}

PriceError == [kind |-> "error", close |-> 0, open |-> 0]

PriceEmpty == [kind |-> "empty", close |-> 0, open |-> 0]

PriceAmbiguous == [kind |-> "ambiguous", close |-> 110, open |-> 100]

Candle(o, c) == [kind |-> "candles", close |-> c, open |-> o]

PriceResponses ==
    {PriceError, PriceEmpty, PriceAmbiguous,
     Candle(100, 110), Candle(110, 100), Candle(100, 100)}

-----------------------------------------------------------------------------
(* Specifications.  Each drives the same handler with the inputs its claims *)
(* are about.                                                               *)

StoreInputs ==
    [entry_price : {0, 10000}, exit_price : {0, 11000}, position : {"Long"},
     leverage : {1}, stop_loss : {0},
     take_profit : {0}, ticker : {"BTC/USDT", "", "NA"},
     date : {1}, time : {0, 34200}]

StoreSubmit ==
    \E in \in StoreInputs :
    \E fng \in {FngError, FngOk(<<Day1Midnight, Day1LastSecond>>)} :
        Submit(1, in, fng, Candle(100, 110))

NextStore == StoreSubmit

(* The same, the journal file being unparseable at the start *)
InitCorrupt == Init /\ file = UnparseableFile /\ tz = 0

SpecCorrupt == InitCorrupt /\ [][NextStore]_vars

(* One session, one submission at a time, on the journal file *)
InitStore == Init /\ tz = 0

SpecStore == InitStore /\ [][NextStore]_vars

CalcInputs ==
    [entry_price : {10000, 100000}, exit_price : {9000, 10000, 11000, 100001}, position : {"Long", "Short"},
     leverage : {1, 2}, stop_loss : {10500},
     take_profit : {8000},
     ticker : {"BTC/USDT"},
     date : {1}, time : {34200}]

CalcSubmit == \E in \in CalcInputs : Submit(1, in, FngError, PriceError)

NextCalc == CalcSubmit

(* One session, one submission at a time, over the prices *)
InitCalc == Init /\ file = AbsentFile /\ tz = 0

SpecCalc == InitCalc /\ [][NextCalc]_vars

CtxInputs ==
    [entry_price : {10000}, exit_price : {11000}, position : {"Long"},
     leverage : {1}, stop_loss : {0},
     take_profit : {0}, ticker : {"BTC/USDT"},
     date : Dates, time : {34200}]

FeedsSubmit ==
    \E in \in CtxInputs : \E fng \in FngResponses : \E price \in PriceResponses :
        Submit(1, in, fng, price)

NextFeeds == FeedsSubmit

(* One session, one submission at a time, over the feeds' answers *)
InitFeeds == Init /\ file = AbsentFile

SpecFeeds == InitFeeds /\ [][NextFeeds]_vars

CacheSubmit ==
    \E in \in CtxInputs :
    \E fng \in {FngError, FngOk(<<Day2Midnight, Day1Midnight, Day1LastSecond>>)} :
    \E price \in {PriceError, Candle(100, 110)} :
        Submit(1, in, fng, price)

CacheTick == \E delta \in {1, TTL - 1} : Tick(delta)

NextCache == CacheSubmit \/ CacheTick

(* One session, one submission at a time, while time passes *)
InitCache == Init /\ file = AbsentFile /\ tz = 0

SpecCache == InitCache /\ [][NextCache]_vars

RaceInputs ==
    [entry_price : {0, 10000}, exit_price : {11000}, position : {"Long"},
     leverage : {1}, stop_loss : {0},
     take_profit : {0}, ticker : {"BTC/USDT", "ETH/USDT"},
     date : {1}, time : {34200}]

RaceBegin ==
    \E s \in Sessions : \E in \in RaceInputs :
        SubmitBegin(s, in, FngError, PriceError)

RaceLoad == \E s \in Sessions : SaveLoad(s)

RaceWrite == \E s \in Sessions : SaveWrite(s)

NextRace == RaceBegin \/ RaceLoad \/ RaceWrite

(* Two sessions whose submissions interleave at the steps of save_data *)
InitRace == Init /\ tz = 0

SpecRace == InitRace /\ [][NextRace]_vars

-----------------------------------------------------------------------------
(* Properties *)

AllIdle == \A s \in Sessions : pc[s] = "idle"

Last(q) == q[Len(q)]

(* C1, as claimed: with saves done one at a time from a missing or empty   *)
(* file, load_data returns the appended records, in order, field by field. *)
C1_LoadReturnsAppended == load_data(file) = appended

(* C2: when a save_data rewrites the file while another session holds a df *)
(* it loaded before, then once both are done the file has fewer rows than   *)
(* records were saved, the last writer's row is the last one, and of two    *)
(* racing records only the last writer's is left.                           *)
C2_LastWriteWins ==
    (AllIdle /\ raced) =>
        /\ Len(load_data(file)) < Len(appended)
        /\ file.kind = "csv"
        /\ Last(file.rows) = Last(to_csv(<<Last(appended)>>).rows)
        /\ (Len(appended) = 2 => file = to_csv(<<appended[2]>>))

C2_Witness ==
    /\ AllIdle
    /\ raced
    /\ Len(appended) = 2
    /\ appended[1] # appended[2]
    /\ load_data(file) = <<appended[2]>>

(* C3: a call for a date whose entry is younger than ttl returns the       *)
(* entry's tuple, calls neither feed and leaves the entry and its creation  *)
(* time as they are; a call for a date with no entry, or with an entry      *)
(* older than ttl, calls the sentiment feed and stores what it returns      *)
(* under the time of the call.                                              *)
C3_CacheWindow ==
    [][lastCall'.n # lastCall.n =>
        LET d == lastCall'.date
        IN  /\ (cache[d].present /\ now - cache[d].created < TTL) =>
                  /\ lastCall'.hit
                  /\ lastCall'.result = cache[d].value
                  /\ lastCall'.fngCalls = 0
                  /\ lastCall'.priceCalls = 0
                  /\ cache' = cache
            /\ (~cache[d].present \/ now - cache[d].created > TTL) =>
                  /\ ~lastCall'.hit
                  /\ lastCall'.fngCalls = 1
                  /\ cache'[d] = [value |-> lastCall'.result, present |-> TRUE,
                                  created |-> now]
                  /\ \A e \in Dates \ {d} : cache'[e] = cache[e]]_vars

C3_Witness ==
    /\ lastCall.hit
    /\ lastCall.at - cache[lastCall.date].created = TTL - 1
    /\ lastCall.result = cache[lastCall.date].value
    /\ lastCall.result # DefaultTuple
    /\ lastCall.fng = FngError

(* C4: a call that is not served from the cache asks the sentiment feed    *)
(* once and the price feed at most once, and returns (0, "-", "no data")    *)
(* whenever the sentiment request or its parsing raises (the price feed is  *)
(* then not asked) or the price request or the candle comparison raises;    *)
(* otherwise it returns a tuple whose trend is a candle or "-".             *)
C4_DefaultOnAnyFailure ==
    (lastCall.n > 0 /\ ~lastCall.hit) =>
        LET fgRaises ==
                \/ lastCall.fng.status = "error"
                \/ FearGreed(lastCall.fng, lastCall.date, tz).kind = "raise"
            priceRaises == lastCall.price.kind \in {"error", "ambiguous"}
        IN  /\ lastCall.fngCalls = 1
            /\ lastCall.priceCalls <= 1
            /\ fgRaises => (lastCall.result = DefaultTuple /\ lastCall.priceCalls = 0)
            /\ priceRaises => lastCall.result = DefaultTuple
            /\ (~fgRaises /\ ~priceRaises) =>
                  lastCall.result.trend \in {"bullish candle", "bearish candle", "-"}
            /\ lastCall.raised = (fgRaises \/ priceRaises)

C4_Witness ==
    /\ lastCall.n > 0
    /\ ~lastCall.hit
    /\ FearGreed(lastCall.fng, lastCall.date, tz).kind = "found"
    /\ lastCall.price.kind = "ambiguous"
    /\ lastCall.result = DefaultTuple
    /\ lastCall.priceCalls = 1

(* The items of the series whose day is the target date *)
Matches(data, target_date, offset) ==
    {i \in 1..Len(data) :
        IsInt(data[i].timestamp)
        /\ ItemDate(IntOf(data[i].timestamp), offset) = target_date}

Min(S) == CHOOSE i \in S : \A j \in S : i <= j

(* C8: a call that computed without an exception on a non-empty series      *)
(* returns the value and label of the first item whose day is the target    *)
(* date, and those of item 1 when there is none.                            *)
C8_FirstMatchElseFirstItem ==
    (lastCall.n > 0 /\ ~lastCall.hit /\ ~lastCall.raised) =>
        LET data == lastCall.fng.data
            M == Matches(data, lastCall.date, tz)
            k == IF M # {} THEN Min(M) ELSE 1
        IN  /\ data # <<>>
            /\ lastCall.result.value = IntOf(data[k].value)
            /\ lastCall.result.text = data[k].value_classification

C8_Witness ==
    /\ lastCall.n > 0
    /\ ~lastCall.hit
    /\ ~lastCall.raised
    /\ Len(lastCall.fng.data) >= 2
    /\ Matches(lastCall.fng.data, lastCall.date, tz) = {}
    /\ lastCall.result.value = IntOf(lastCall.fng.data[1].value)
    /\ lastCall.result.value # IntOf(Last(lastCall.fng.data).value)

(* C9: a call in which a feed raised leaves (0, "-", "no data") in the      *)
(* cache under the time of the call; a call for a date whose entry holds    *)
(* that tuple and is younger than ttl returns it without asking a feed,     *)
(* whatever the feeds would answer, and the record saved carries it.        *)
C9_DefaultIsCached ==
    /\ [](lastCall.raised =>
            cache[lastCall.date] =
                [value |-> DefaultTuple, present |-> TRUE, created |-> lastCall.at])
    /\ [][lastCall'.n # lastCall.n =>
            LET d == lastCall'.date
            IN  (cache[d].present /\ cache[d].value = DefaultTuple
                 /\ now - cache[d].created < TTL) =>
                    /\ lastCall'.result = DefaultTuple
                    /\ lastCall'.fngCalls = 0
                    /\ lastCall'.priceCalls = 0
                    /\ Len(appended') = Len(appended) + 1
                    /\ Last(appended').fng = 0
                    /\ Last(appended').mood = "-"
                    /\ Last(appended').trend = "no data"
                    /\ Last(load_data(file')).trend = "no data"]_vars

C9_Witness ==
    /\ lastCall.hit
    /\ lastCall.result = DefaultTuple
    /\ lastCall.fng.status = "ok"
    /\ lastCall.price.kind = "candles"
    /\ lastCall.at > cache[lastCall.date].created
    /\ Len(appended) = 2
    /\ appended[2].trend = "no data"

(* C5: with clicks handled one at a time, the file holds as many rows as    *)
(* there were clicks with both prices positive; a click with a price that   *)
(* is not positive shows the error and changes neither the file nor the     *)
(* cache and calls no feed; a click with both prices positive shows the     *)
(* success and adds one row, which carries (0, "-", "no data") when the     *)
(* lookup raised.                                                           *)
C5_RowsCountValidClicks ==
    /\ [](Len(load_data(file)) = submitted.nValid)
    /\ [](submitted.last = "invalid" => msg[1] = "error")
    /\ [](submitted.last = "valid" => msg[1] = "success")
    /\ [][submitted'.last = "invalid" =>
            (file' = file /\ cache' = cache /\ lastCall' = lastCall)]_vars
    /\ [][(submitted' # submitted /\ submitted'.last = "valid") =>
            /\ Len(load_data(file')) = Len(load_data(file)) + 1
            /\ lastCall'.n = lastCall.n + 1
            /\ lastCall'.raised =>
                  /\ Last(load_data(file')).fng = 0
                  /\ Last(load_data(file')).mood = "-"
                  /\ Last(load_data(file')).trend = "no data"]_vars

C5_Witness ==
    /\ submitted.last = "invalid"
    /\ submitted.in.entry_price > 0
    /\ msg[1] = "error"
    /\ submitted.nValid = 1
    /\ lastCall.raised
    /\ Len(load_data(file)) = 1
    /\ load_data(file)[1].trend = "no data"

(* C6, as claimed: every row of the file has result Win exactly when its    *)
(* stored, rounded percentage is greater than 0.                            *)
C6_WinIffStoredPositive ==
    \A i \in 1..Len(load_data(file)) :
        (load_data(file)[i].result = "Win") <=> (load_data(file)[i].pnl > 0)

(* C7: the percentage computed for a click with both prices positive is     *)
(* (exit - entry) / entry * leverage * 100 for Long and                     *)
(* (entry - exit) / entry * leverage * 100 for Short, the negation of what  *)
(* the other position gives for the same prices and leverage; Long 100 to   *)
(* 110 at leverage 2 is stored as 20.00, Short 100 to 90 at leverage 1 as   *)
(* 10.00.                                                                   *)
C7_PnlFormula ==
    submitted.last = "valid" =>
        LET in    == submitted.in
            rate  == submitted.rate
            other == IF in.position = "Long" THEN "Short" ELSE "Long"
            opp   == PnlRate(other, in.entry_price, in.exit_price, in.leverage)
            diff  == IF in.position = "Long"
                     THEN in.exit_price - in.entry_price
                     ELSE in.entry_price - in.exit_price
        IN  /\ rate.den = in.entry_price
            /\ rate.num = diff * in.leverage * 100
            /\ opp.den = rate.den
            /\ opp.num = -rate.num
            /\ (in.position = "Long" /\ in.entry_price = 10000
                /\ in.exit_price = 11000 /\ in.leverage = 2)
                  => Last(appended).pnl = 2000
            /\ (in.position = "Short" /\ in.entry_price = 10000
                /\ in.exit_price = 9000 /\ in.leverage = 1)
                  => Last(appended).pnl = 1000

C7_Witness ==
    /\ submitted.last = "valid"
    /\ submitted.in.position = "Short"
    /\ submitted.in.entry_price = 10000
    /\ submitted.in.exit_price = 9000
    /\ submitted.in.leverage = 1
    /\ Last(appended).pnl = 1000
    /\ Last(appended).result = "Win"

(* C10: while the file is unparseable load_data returns no rows; the first  *)
(* save_data replaces the file by the one new record, and a load_data then  *)
(* returns a single row; the file stays readable from then on.              *)
C10_UnparseableIsReplaced ==
    /\ (appended = <<>>) => (file = UnparseableFile /\ load_data(file) = <<>>)
    /\ (Len(appended) >= 1) =>
          (file.kind = "csv" /\ Len(load_data(file)) = Len(appended))
    /\ (Len(appended) = 1) =>
          (file = to_csv(<<appended[1]>>) /\ Len(load_data(file)) = 1)

C10_Witness ==
    /\ Len(appended) = 1
    /\ file.kind = "csv"
    /\ Len(load_data(file)) = 1
    /\ load_data(file)[1].position = appended[1].position

====
